---------------------------- MODULE Spec2Model ----------------------------
(***************************************************************************)
(* Model of src/agent.py: JiraIssueAgent, a dispatcher that answers a      *)
(* question by one call to an external provider (mcp_client.call_tool),    *)
(* a rule table that turns a record into suggestions, and two formatters.  *)
(*                                                                         *)
(* Text is a sequence of atoms.  A question is a sequence of one-character *)
(* atoms; literal chunks of the program's messages are single atoms.       *)
(* Python values are tagged records [t, v].                                *)
(***************************************************************************)
EXTENDS Integers, Sequences, FiniteSets, TLC

(* ------------------------------ bounds -------------------------------- *)
MaxQuestionLen == 6
MaxResults == 7
NumRequests == 2

(* -------------------------- program constants -------------------------- *)
DefaultMaxResults == 10
DisplayLimit == 5

(* --------------------------- Python values ----------------------------- *)
PyNone == [t |-> "None", v |-> <<>>]
PyStr(s) == [t |-> "str", v |-> s]
PyDict(d) == [t |-> "dict", v |-> d]
PyList(l) == [t |-> "list", v |-> l]
EmptyMap == [k \in {} |-> PyNone]
Txt(a) == PyStr(<<a>>)

Ok(v) == [ok |-> TRUE, v |-> v]
Raise(e) == [ok |-> FALSE, v |-> PyStr(<<e>>)]

\* x.get(k, default): only a dict has .get
Get(x, k, default) ==
  IF x.t = "dict"
  THEN Ok(IF k \in DOMAIN x.v THEN x.v[k] ELSE default)
  ELSE Raise("AttributeError")

\* x.get(k1, {}).get(k2, default)
Get2(x, k1, k2, default) ==
  LET a == Get(x, k1, PyDict(EmptyMap))
  IN IF a.ok THEN Get(a.v, k2, default) ELSE a

\* x.get(k1, {}).get(k2, {}).get(k3, default)
Get3(x, k1, k2, k3, default) ==
  LET a == Get2(x, k1, k2, PyDict(EmptyMap))
  IN IF a.ok THEN Get(a.v, k3, default) ELSE a

\* f"{x}" of a value
Format(x) ==
  CASE x.t = "str" -> x.v
    [] x.t = "None" -> <<"None">>
    [] x.t = "dict" -> <<"{...}">>
    [] x.t = "list" -> <<"[...]">>

\* str(n) of a natural number
RECURSIVE Decimal(_)
Decimal(n) ==
  LET d == <<"0", "1", "2", "3", "4", "5", "6", "7", "8", "9">>[(n % 10) + 1]
  IN IF n < 10 THEN <<d>> ELSE Decimal(n \div 10) \o <<d>>

(* ---------------------- _extract_issue_key (regex) --------------------- *)
Upper == {"A"}
Digit == {"1", "2"}
Lower == {"x"}
Hyphen == "-"
Chars == Upper \cup Digit \cup Lower \cup {Hyphen}

\* \w
IsWord(c) == c \in Upper \cup Digit \cup Lower \cup {"_"}

WordAt(text, i) == i >= 1 /\ i <= Len(text) /\ IsWord(text[i])

\* mutant: the pattern without its \b anchors
NoWordBoundary(text, i) == TRUE

\* \b before position i (between text[i-1] and text[i])
WordBoundary(text, i) == WordAt(text, i - 1) # WordAt(text, i)

\* [A-Z]+-\d+ matches text[i..e] with the hyphen at h
Shape(text, i, h, e) ==
  /\ i < h /\ h < e /\ e <= Len(text)
  /\ \A j \in i..(h - 1) : text[j] \in Upper
  /\ text[h] = Hyphen
  /\ \A j \in (h + 1)..e : text[j] \in Digit

\* the spans text[i..e], hyphen at h, that \b[A-Z]+-\d+\b matches
Matches(text) ==
  LET n == Len(text)
      starts == {i \in 1..n : WordBoundary(text, i)}
      hyphens == {h \in 1..n : text[h] = Hyphen}
      ends == {e \in 1..n : WordBoundary(text, e + 1)}
  IN {m \in starts \X hyphens \X ends : Shape(text, m[1], m[2], m[3])}

\* re.search: leftmost start, then greedy [A-Z]+, then greedy \d+
Search(text) ==
  LET ms == Matches(text)
      i == CHOOSE a \in {m[1] : m \in ms} : \A m \in ms : a <= m[1]
      h == CHOOSE b \in {m[2] : m \in {n \in ms : n[1] = i}} :
             \A m \in ms : m[1] = i => b >= m[2]
      e == CHOOSE c \in {m[3] : m \in {n \in ms : n[1] = i /\ n[2] = h}} :
             \A m \in ms : (m[1] = i /\ m[2] = h) => c >= m[3]
  IN IF ms = {} THEN PyNone ELSE PyStr(SubSeq(text, i, e))

_extract_issue_key(text) == Search(text)

(* ----------------------------- Lookup Client --------------------------- *)
\* the outcome of one await of mcp_client.call_tool
Raises(reason) == [raises |-> TRUE, reason |-> reason, value |-> PyNone]
Returns(value) == [raises |-> FALSE, reason |-> <<>>, value |-> value]

GetIssueRequest(issue_key) ==
  [tool |-> "atlassian_get_issue", issue_key |-> issue_key]

SearchRequest(query, max_results) ==
  [tool |-> "atlassian_search_issues", jql |-> query, max_results |-> max_results]

\* the provider calls get_issue_details makes
get_issue_details_calls(issue_key) == <<GetIssueRequest(issue_key)>>

\* mutant: the display limit sent as max_results
search_with_display_limit(query, max_results) == <<SearchRequest(query, DisplayLimit)>>

\* the provider calls search_jira_issues makes
search_jira_issues_calls(query, max_results) == <<SearchRequest(query, max_results)>>

\* mutant: the failure value drops str(e)
get_issue_details_no_reason(outcome) ==
  IF outcome.raises
  THEN PyDict("error" :> PyStr(<<"Failed to get issue details">>))
  ELSE outcome.value

\* what get_issue_details returns once the await has ended
get_issue_details(outcome) ==
  IF outcome.raises
  THEN PyDict("error" :> PyStr(<<"Failed to get issue details: ">> \o outcome.reason))
  ELSE outcome.value

\* what search_jira_issues returns once the await has ended; response.get
\* is inside the try, so its AttributeError is caught as well
search_jira_issues(outcome) ==
  LET issues == Get(outcome.value, "issues", PyList(<<>>))
      e == IF outcome.raises THEN outcome.reason ELSE issues.v.v
  IN IF ~outcome.raises /\ issues.ok
     THEN issues.v
     ELSE PyDict("error" :> PyStr(<<"Failed to search issues: ">> \o e))

(* --------------------------- Suggestion Rules -------------------------- *)
LowUrgency ==
  PyDict([priority |-> Txt("low"),
          suggestion |-> Txt("This is a low priority issue. Consider addressing after critical items."),
          action |-> Txt("Schedule for next sprint")])

HighUrgency ==
  PyDict([priority |-> Txt("high"),
          suggestion |-> Txt("This is a high priority issue requiring immediate attention."),
          action |-> Txt("Escalate to team lead and address immediately")])

Debugging ==
  PyDict([type |-> Txt("debugging"),
          suggestion |-> Txt("Review recent code changes and check error logs"),
          action |-> Txt("Run diagnostic tests and reproduce the issue")])

Implementation ==
  PyDict([type |-> Txt("implementation"),
          suggestion |-> Txt("Break down into smaller tasks and estimate effort"),
          action |-> Txt("Create subtasks and assign to team members")])

\* priority_scores.get(priority, 0)
priority_scores(priority) ==
  CASE priority = Txt("Highest") -> 5
    [] priority = Txt("High") -> 4
    [] priority = Txt("Medium") -> 3
    [] priority = Txt("Low") -> 2
    [] priority = Txt("Lowest") -> 1
    [] OTHER -> 0

\* mutant: < 3 instead of <= 3
UrgencyEntryBelow3(priority) ==
  IF priority_scores(priority) < 3 THEN <<LowUrgency>> ELSE <<HighUrgency>>

UrgencyEntry(priority) ==
  IF priority_scores(priority) <= 3 THEN <<LowUrgency>> ELSE <<HighUrgency>>

\* mutant: the type name compared without regard to case
TypeEntryAnyCase(issue_type) ==
  IF issue_type \in {Txt("Bug"), Txt("bug")} THEN <<Debugging>>
  ELSE IF issue_type \in {Txt("Story"), Txt("story")} THEN <<Implementation>>
  ELSE <<>>

TypeEntry(issue_type) ==
  IF issue_type = Txt("Bug") THEN <<Debugging>>
  ELSE IF issue_type = Txt("Story") THEN <<Implementation>>
  ELSE <<>>

suggest_solutions(issue_data) ==
  LET issue_type == Get3(issue_data, "fields", "issuetype", "name", PyStr(<<>>))
      priority == Get3(issue_data, "fields", "priority", "name", PyStr(<<>>))
      description == Get2(issue_data, "fields", "description", PyStr(<<>>))
  IN IF ~issue_type.ok THEN issue_type
     ELSE IF ~priority.ok THEN priority
     ELSE IF ~description.ok THEN description
     ELSE IF priority.v.t \in {"dict", "list"} THEN Raise("TypeError")
     ELSE Ok(PyList(UrgencyEntry(priority.v) \o TypeEntry(issue_type.v)))

(* -------------------------- Response Formatter ------------------------- *)
\* the loop of _format_response over enumerate(solutions, 1), from idx on
RECURSIVE SolutionLines(_, _)
SolutionLines(solutions, idx) ==
  IF idx > Len(solutions) THEN Ok(PyStr(<<>>))
  ELSE LET suggestion == Get(solutions[idx], "suggestion", Txt("No suggestion"))
           action == Get(solutions[idx], "action", Txt("No action"))
           rest == SolutionLines(solutions, idx + 1)
       IN IF ~suggestion.ok THEN suggestion
          ELSE IF ~action.ok THEN action
          ELSE IF ~rest.ok THEN rest
          ELSE Ok(PyStr(Decimal(idx) \o <<". ">> \o Format(suggestion.v) \o <<"\n">>
                        \o <<"   Action: ">> \o Format(action.v) \o <<"\n\n">>
                        \o rest.v.v))

_format_response(issue_data, solutions) ==
  LET issue_key == Get(issue_data, "key", Txt("Unknown"))
      summary == Get2(issue_data, "fields", "summary", Txt("No summary"))
      lines == SolutionLines(solutions.v, 1)
  IN IF ~issue_key.ok THEN issue_key
     ELSE IF ~summary.ok THEN summary
     ELSE IF ~lines.ok THEN lines
     ELSE Ok(PyStr(<<"**Issue: ">> \o Format(issue_key.v) \o <<"**\n">>
                   \o <<"Summary: ">> \o Format(summary.v) \o <<"\n\n">>
                   \o <<"**Suggested Solutions:**\n">>
                   \o lines.v.v))

\* mutant: no slice
ShownAll(results) == results

\* results[:5]
Shown(results) ==
  SubSeq(results, 1, IF Len(results) < DisplayLimit THEN Len(results) ELSE DisplayLimit)

\* the loop of _format_search_results over the shown issues, from i on
RECURSIVE IssueLines(_, _)
IssueLines(issues, i) ==
  IF i > Len(issues) THEN Ok(PyStr(<<>>))
  ELSE LET key == Get(issues[i], "key", Txt("Unknown"))
           summary == Get2(issues[i], "fields", "summary", Txt("No summary"))
           rest == IssueLines(issues, i + 1)
       IN IF ~key.ok THEN key
          ELSE IF ~summary.ok THEN summary
          ELSE IF ~rest.ok THEN rest
          ELSE Ok(PyStr(<<"- ">> \o Format(key.v) \o <<": ">> \o Format(summary.v)
                        \o <<"\n">> \o rest.v.v))

\* not x
Falsy(x) ==
  \/ x.t = "None"
  \/ x.t \in {"list", "str"} /\ x.v = <<>>
  \/ x.t = "dict" /\ DOMAIN x.v = {}

NoIssuesFound == <<"No issues found matching your query.">>

_format_search_results(results) ==
  LET lines == IssueLines(Shown(results.v), 1)
  IN IF Falsy(results) THEN Ok(PyStr(NoIssuesFound))
     ELSE IF results.t = "dict" THEN Raise("TypeError")
     ELSE IF results.t = "str" THEN Raise("AttributeError")
     ELSE IF ~lines.ok THEN lines
     ELSE Ok(PyStr(<<"Found ">> \o Decimal(Len(results.v)) \o <<" issue(s):\n\n">>
                   \o lines.v.v))

(* ------------------------------ Dispatcher ----------------------------- *)
\* k in x
In(k, x) ==
  CASE x.t = "dict" -> [ok |-> TRUE, b |-> k \in DOMAIN x.v, v |-> PyNone]
    [] x.t = "list" -> [ok |-> TRUE, b |-> \E i \in 1..Len(x.v) : x.v[i] = Txt(k), v |-> PyNone]
    [] x.t = "str" -> [ok |-> TRUE, b |-> \E i \in 1..Len(x.v) : x.v[i] = k, v |-> PyNone]
    [] x.t = "None" -> [ok |-> FALSE, b |-> FALSE, v |-> Txt("TypeError")]

\* x[k]
Item(x, k) ==
  IF x.t = "dict"
  THEN IF k \in DOMAIN x.v THEN Ok(x.v[k]) ELSE Raise("KeyError")
  ELSE Raise("TypeError")

\* mutant: the locals kept on the agent object, one slot for all requests
SharedFrame(p) == 1

\* the frame a request's local variables live in: one per coroutine
Frame(p) == p

\* mutant: a search issued next to the lookup
process_question_calls_both(question, issue_key) ==
  IF issue_key # PyNone
  THEN get_issue_details_calls(issue_key.v) \o search_jira_issues_calls(question, DefaultMaxResults)
  ELSE search_jira_issues_calls(question, DefaultMaxResults)

\* process_question up to its await: the provider calls it starts
process_question_calls(question, issue_key) ==
  IF issue_key # PyNone
  THEN get_issue_details_calls(issue_key.v)
  ELSE search_jira_issues_calls(question, DefaultMaxResults)

Ended(pc, result, invoked, client, solutions) ==
  [pc |-> pc, result |-> result, invoked |-> invoked, client |-> client,
   solutions |-> solutions]

\* process_question after await self.get_issue_details(issue_key)
AfterLookup(issue_key, outcome) ==
  LET issue_data == get_issue_details(outcome)
      has_error == In("error", issue_data)
      solutions == suggest_solutions(issue_data)
      response == _format_response(issue_data, solutions.v)
      error == Item(issue_data, "error")
  IN IF ~has_error.ok
     THEN Ended("raised", has_error.v.v, <<>>, issue_data, PyNone)
     ELSE IF ~has_error.b
     THEN IF ~solutions.ok
          THEN Ended("raised", solutions.v.v, <<"suggest_solutions">>, issue_data, PyNone)
          ELSE IF ~response.ok
          THEN Ended("raised", response.v.v, <<"suggest_solutions", "_format_response">>,
                     issue_data, solutions.v)
          ELSE Ended("returned", response.v.v, <<"suggest_solutions", "_format_response">>,
                     issue_data, solutions.v)
     ELSE IF ~error.ok
     THEN Ended("raised", error.v.v, <<>>, issue_data, PyNone)
     ELSE Ended("returned",
                <<"Could not retrieve issue ">> \o issue_key.v \o <<": ">> \o Format(error.v),
                <<>>, issue_data, PyNone)

\* process_question after await self.search_jira_issues(question)
AfterSearch(outcome) ==
  LET search_results == search_jira_issues(outcome)
      response == _format_search_results(search_results)
  IN IF search_results.t = "dict" /\ "error" \in DOMAIN search_results.v
     THEN Ended("returned",
                <<"Search failed: ">> \o Format(search_results.v["error"]),
                <<>>, search_results, PyNone)
     ELSE IF ~response.ok
     THEN Ended("raised", response.v.v, <<"_format_search_results">>, search_results, PyNone)
     ELSE Ended("returned", response.v.v, <<"_format_search_results">>, search_results, PyNone)

(* ------------------------------- inputs -------------------------------- *)
RECURSIVE Texts(_)
Texts(n) ==
  IF n = 0 THEN {<<>>}
  ELSE LET shorter == Texts(n - 1)
       IN shorter \cup {Append(s, c) : s \in {u \in shorter : Len(u) = n - 1}, c \in Chars}

SampleKey == <<"A", "-", "1">>
SampleQuestions == {SampleKey, <<"x", "A", "-", "1">>, <<"A", "-", "1", "x">>, <<"x">>}

\* questions longer than MaxQuestionLen
LongQuestions ==
  {<<"x", " ", "A", "-", "1", "?">>,
   <<"A", "-", "1", " ", "A", "-", "2">>,
   <<"x", "A", "-", "1", " ", "A", "A", "-", "2", "1", "?">>,
   <<"A", "-", "1", "x", " ", "A", "-", "2", " ", "A", "-", "1">>,
   <<"A", "-", "1", "_", "A", "-", "2">>,
   <<"x", " ", "-", "1", " ", "A", "-", "?">>}

Reasons == {<<"timeout">>, <<>>}

PriorityNames == {"Highest", "High", "Medium", "Low", "Lowest", "Critical"}
TypeNames == {"Bug", "Story", "bug", "Epic"}

Optional(k, values) == {EmptyMap} \cup {k :> val : val \in values}

Named(names) == {PyNone, PyDict(EmptyMap)} \cup {PyDict("name" :> Txt(n)) : n \in names}

FieldBags ==
  {PyDict(s @@ pr @@ ty) :
     s \in Optional("summary", {PyNone, Txt("Login fails")}),
     pr \in Optional("priority", Named(PriorityNames)),
     ty \in Optional("issuetype", Named(TypeNames))}

\* what the provider may hand back for one issue
IssuePayloads ==
  {PyDict(k @@ f @@ e) :
     k \in Optional("key", {PyStr(SampleKey)}),
     f \in Optional("fields", {PyNone} \cup FieldBags),
     e \in Optional("error", {Txt("not found")})}
  \cup {PyNone, PyList(<<>>)}

Hits == {PyDict(EmptyMap),
         PyDict(("key" :> PyStr(SampleKey))
                @@ ("fields" :> PyDict("summary" :> Txt("Login fails"))))}

RECURSIVE Lists(_, _)
Lists(S, n) ==
  IF n = 0 THEN {<<>>}
  ELSE LET shorter == Lists(S, n - 1)
       IN shorter \cup {Append(l, a) : l \in {u \in shorter : Len(u) = n - 1}, a \in S}

\* what the provider may hand back for a search
SearchPayloads ==
  {PyDict("issues" :> PyList(l)) : l \in Lists(Hits, MaxResults)}
  \cup {PyDict("issues" :> PyNone), PyDict("issues" :> PyList(<<PyDict("fields" :> PyNone)>>))}

Outcomes ==
  {Raises(r) : r \in Reasons} \cup {Returns(val) : val \in IssuePayloads \cup SearchPayloads}

SampleIssue ==
  PyDict(("key" :> PyStr(SampleKey))
         @@ ("fields" :> PyDict(("priority" :> PyDict("name" :> Txt("High")))
                                @@ ("issuetype" :> PyDict("name" :> Txt("Bug"))))))

SampleOutcomes ==
  {Raises(<<"timeout">>), Returns(SampleIssue),
   Returns(PyDict("issues" :> PyList(<<SampleIssue>>)))}

(* ----------------------------- the machine ----------------------------- *)
VARIABLES
  question,    \* [request -> the text process_question was called with]
  provider,    \* [request -> how its await of call_tool ends]
  pc,          \* [request -> "called" | "awaiting" | "returned" | "raised"]
  issue_key,   \* [frame -> local issue_key]
  calls,       \* [request -> the provider calls made so far]
  invoked,     \* [request -> the agent's functions entered so far]
  client,      \* [frame -> local issue_data / search_results]
  solutions,   \* [frame -> local solutions]
  result       \* [request -> the returned string, or the exception that escaped]

vars == <<question, provider, pc, issue_key, calls, invoked, client, solutions, result>>

Requests == DOMAIN question

Called(requests, questions, outcomes) ==
  /\ question \in [requests -> questions]
  /\ provider \in [requests -> outcomes]
  /\ pc = [p \in requests |-> "called"]
  /\ issue_key = [p \in requests |-> PyNone]
  /\ calls = [p \in requests |-> <<>>]
  /\ invoked = [p \in requests |-> <<>>]
  /\ client = [p \in requests |-> PyNone]
  /\ solutions = [p \in requests |-> PyNone]
  /\ result = [p \in requests |-> <<>>]

\* one question, every provider behaviour
Init == Called({1}, SampleQuestions, Outcomes)

\* every question up to MaxQuestionLen
InitDispatch ==
  Called({1}, Texts(MaxQuestionLen) \cup LongQuestions,
         {Raises(<<"timeout">>), Returns(SampleIssue)})

\* several requests on the same agent
InitConcurrent == Called(1..NumRequests, {SampleKey, <<"x">>}, SampleOutcomes)

\* process_question runs to its await
Ask(p) ==
  /\ pc[p] = "called"
  /\ LET key == _extract_issue_key(question[p])
     IN /\ issue_key' = [issue_key EXCEPT ![Frame(p)] = key]
        /\ calls' = [calls EXCEPT ![p] = @ \o process_question_calls(question[p], key)]
        /\ invoked' = [invoked EXCEPT ![p] =
                         @ \o <<"_extract_issue_key",
                                IF key # PyNone THEN "get_issue_details"
                                ELSE "search_jira_issues">>]
  /\ pc' = [pc EXCEPT ![p] = "awaiting"]
  /\ UNCHANGED <<question, provider, client, solutions, result>>

Resume(p, end) ==
  /\ pc' = [pc EXCEPT ![p] = end.pc]
  /\ result' = [result EXCEPT ![p] = end.result]
  /\ invoked' = [invoked EXCEPT ![p] = @ \o end.invoked]
  /\ client' = [client EXCEPT ![Frame(p)] = end.client]
  /\ solutions' = [solutions EXCEPT ![Frame(p)] = end.solutions]
  /\ UNCHANGED <<question, provider, issue_key, calls>>

\* the await of get_issue_details ends and process_question runs to its end
LookupEnds(p) ==
  /\ pc[p] = "awaiting"
  /\ issue_key[Frame(p)] # PyNone
  /\ Resume(p, AfterLookup(issue_key[Frame(p)], provider[p]))

\* the await of search_jira_issues ends and process_question runs to its end
SearchEnds(p) ==
  /\ pc[p] = "awaiting"
  /\ issue_key[Frame(p)] = PyNone
  /\ Resume(p, AfterSearch(provider[p]))

Next ==
  \/ \E p \in Requests : Ask(p)
  \/ \E p \in Requests : LookupEnds(p)
  \/ \E p \in Requests : SearchEnds(p)

Spec == Init /\ [][Next]_vars
SpecDispatch == InitDispatch /\ [][Next]_vars
SpecConcurrent == InitConcurrent /\ [][Next]_vars

(* ------------------------------- claims -------------------------------- *)
Asked(p) == pc[p] # "called"
Done(p) == pc[p] \in {"returned", "raised"}

\* text[i..e] has the form uppercase letters, hyphen, digits
KeyShaped(text, i, e) == \E h \in 1..Len(text) : Shape(text, i, h, e)

\* ... and stands between characters that are no letter, digit or underscore
Delimited(text, i, e) ==
  /\ KeyShaped(text, i, e)
  /\ ~WordAt(text, i - 1)
  /\ ~WordAt(text, e + 1)

Spans(text) == (1..Len(text)) \X (1..Len(text))

\* the leftmost, longest key-shaped substring
FirstKeyShaped(text) ==
  LET ks == {m \in Spans(text) : KeyShaped(text, m[1], m[2])}
      first == CHOOSE m \in ks :
                 \A n \in ks : m[1] < n[1] \/ (m[1] = n[1] /\ m[2] >= n[2])
  IN SubSeq(text, first[1], first[2])

\* C1 as stated: every question that contains a substring of the form
\* uppercase letters, hyphen, digits, whatever surrounds it, leads to one
\* single-record lookup with the first such substring as the key, and to no search.
C1_AnyKeyShapedSubstringIsLookedUp ==
  \A p \in Requests :
    (Asked(p) /\ \E m \in Spans(question[p]) : KeyShaped(question[p], m[1], m[2]))
      => calls[p] = <<GetIssueRequest(FirstKeyShaped(question[p]))>>

\* C1 amended: every question that contains such a substring standing between
\* word boundaries (no letter, digit or underscore directly before or after it)
\* leads to one single-record lookup with the first such substring as the key,
\* and to no search.
C1_FirstDelimitedKeyIsLookedUp ==
  \A p \in Requests :
    Asked(p) =>
      \A m \in Spans(question[p]) :
        (/\ Delimited(question[p], m[1], m[2])
         /\ \A n \in Spans(question[p]) :
              Delimited(question[p], n[1], n[2]) => m[1] <= n[1])
          => calls[p] = <<GetIssueRequest(SubSeq(question[p], m[1], m[2]))>>

\* a finished lookup whose key is the second key-shaped substring of the
\* question, the first one running into a word character
C1_Witness ==
  \E p \in Requests :
    /\ pc[p] = "returned"
    /\ question[p] = <<"x", "A", "-", "1", " ", "A", "A", "-", "2", "1", "?">>
    /\ calls[p] = <<GetIssueRequest(<<"A", "A", "-", "2", "1">>)>>

\* C2: when no identifier is extracted, process_question calls search with
\* the whole unmodified question as the query and the default limit of 10,
\* and never calls the single-record lookup.
C2_NoKeyMeansSearchOfWholeText ==
  \A p \in Requests :
    (Asked(p) /\ issue_key[p] = PyNone)
      => calls[p] = <<[tool |-> "atlassian_search_issues",
                       jql |-> question[p],
                       max_results |-> 10]>>

\* a finished search whose question holds a key-shaped substring that is
\* not delimited
C2_Witness ==
  \E p \in Requests :
    /\ pc[p] = "returned"
    /\ question[p] = <<"x", "A", "-", "1">>
    /\ Len(calls[p]) = 1
    /\ calls[p][1].tool = "atlassian_search_issues"
    /\ calls[p][1].jql = question[p]

\* C3 as stated: whatever the question and the provider's behaviour,
\* process_question ends by returning a string; no exception escapes it.
C3_NoExceptionEscapes ==
  \A p \in Requests : pc[p] # "raised"

\* r occurs in text
Contains(text, r) ==
  \E i \in 0..(Len(text) - Len(r)) : SubSeq(text, i + 1, i + Len(r)) = r

Formatters == {"suggest_solutions", "_format_response", "_format_search_results"}

\* C4: when the provider call raises with reason r, the lookup client hands
\* back a failure value, and process_question returns a sentence containing r
\* without entering suggest, formatIssue or formatSearch.
C4_ProviderErrorBecomesFailureSentence ==
  \A p \in Requests :
    (Done(p) /\ provider[p].raises)
      => /\ pc[p] = "returned"
         /\ client[p].t = "dict" /\ "error" \in DOMAIN client[p].v
         /\ Contains(result[p], provider[p].reason)
         /\ \A i \in 1..Len(invoked[p]) : invoked[p][i] \notin Formatters

\* a lookup whose provider call raised "timeout" has ended with the failure
\* sentence
C4_Witness ==
  \E p \in Requests :
    /\ pc[p] = "returned"
    /\ provider[p] = Raises(<<"timeout">>)
    /\ issue_key[p] # PyNone
    /\ result[p] = <<"Could not retrieve issue ", "A", "-", "1", ": ",
                     "Failed to get issue details: ", "timeout">>

\* C5 as stated: when getByKey returns a record without raising, whatever
\* its keys, process_question calls suggest on it, and what it returns is
\* formatIssue's rendering of the record and its suggestions, never a
\* failure sentence.
C5_ReturnedRecordIsRendered ==
  \A p \in Requests :
    (Done(p) /\ issue_key[p] # PyNone /\ ~provider[p].raises
            /\ provider[p].value.t = "dict")
      => /\ \E i \in 1..Len(invoked[p]) : invoked[p][i] = "suggest_solutions"
         /\ pc[p] = "returned" =>
              result[p] = _format_response(provider[p].value,
                                           suggest_solutions(provider[p].value).v).v.v

\* the name under fields.<field>.name of a record, PyNone when absent
NameOf(record, field) ==
  IF /\ "fields" \in DOMAIN record.v
     /\ field \in DOMAIN record.v["fields"].v
     /\ "name" \in DOMAIN record.v["fields"].v[field].v
  THEN record.v["fields"].v[field].v["name"]
  ELSE PyNone

IsUrgency(entry) == "priority" \in DOMAIN entry.v

LineOf(record) ==
  <<"- ">>
  \o (IF "key" \in DOMAIN record.v THEN record.v["key"].v ELSE <<"Unknown">>)
  \o <<": ">>
  \o (IF "fields" \in DOMAIN record.v THEN record.v["fields"].v["summary"].v
      ELSE <<"No summary">>)
  \o <<"\n">>

RECURSIVE FirstLines(_, _)
FirstLines(records, k) ==
  IF k = 0 THEN <<>> ELSE FirstLines(records, k - 1) \o LineOf(records[k])

Tools == {"atlassian_get_issue", "atlassian_search_issues"}

\* C9: an execution of process_question makes exactly one provider call,
\* a search or a lookup, and none after that call has ended.
C9_ExactlyOneProviderCall ==
  \A p \in Requests :
    /\ ~Asked(p) => calls[p] = <<>>
    /\ Asked(p) => Len(calls[p]) = 1 /\ calls[p][1].tool \in Tools

\* a request whose provider call raised has ended with that single call
C9_Witness ==
  \E p \in Requests :
    /\ Done(p)
    /\ provider[p].raises
    /\ Len(calls[p]) = 1

\* what process_question answers when it runs alone
Alone(q, outcome) ==
  LET key == _extract_issue_key(q)
      end == IF key # PyNone THEN AfterLookup(key, outcome) ELSE AfterSearch(outcome)
  IN <<end.pc, end.result>>

\* C10: under every interleaving of the requests at their awaits, what a
\* request returns is what it would return run alone on its question and its
\* provider response.
C10_InterleavedRequestsAnswerAsAlone ==
  \A p \in Requests :
    Done(p) => <<pc[p], result[p]>> = Alone(question[p], provider[p])

\* one request has returned while another, of the other route, is still at its
\* await
C10_Witness ==
  \E p, q \in Requests :
    /\ pc[p] = "returned" /\ issue_key[p] # PyNone
    /\ pc[q] = "awaiting" /\ issue_key[q] = PyNone
    /\ provider[p] # provider[q]

=============================================================================
